---- MODULE Spec2Model ----
(***************************************************************************)
(* A model of jtd-infer: the inference lattice InferredSchema, its fold    *)
(* (InferredSchema::infer), its projection (InferredSchema::into_schema),  *)
(* the hint matcher (HintSet / Hints) and the number domain                *)
(* (InferredNumber).  The driver of main.rs folds example documents one    *)
(* at a time into an inference that starts as Unknown.                     *)
(***************************************************************************)
EXTENDS Integers, Sequences, FiniteSets, TLC

(***************************************************************************)
(* JSON values (serde_json::Value).  Each variant has its own payload      *)
(* field.  An object is a function from its keys to values.                *)
(***************************************************************************)
JNull == [t |-> "null"]
JBool(b) == [t |-> "bool", b |-> b]
JNum(n) == [t |-> "num", n |-> n]
JStr(s) == [t |-> "str", s |-> s]
JArr(a) == [t |-> "arr", a |-> a]
JObj(o) == [t |-> "obj", o |-> o]

EmptyMap == [k \in {} |-> JNull]

(***************************************************************************)
(* f64 values.  A number is <<c, hi, lo, fr>>: c = -1 is f64::MIN, c = 1   *)
(* is f64::MAX, and c = 0 is the finite value hi * 65536 + lo + fr / 2     *)
(* with 0 <= lo < 65536 and fr \in {0, 1}.  Only comparison and fract()    *)
(* are used by the program, and both are exact in this representation.     *)
(***************************************************************************)
F64FromInt(n) == <<0, n \div 65536, n % 65536, 0>>
F64Half(n) == <<0, n \div 65536, n % 65536, 1>>
F64_MAX == <<1, 0, 0, 0>>
F64_MIN == <<-1, 0, 0, 0>>

F64Le(x, y) ==
    \/ x[1] < y[1]
    \/ x[1] = y[1] /\ x[2] < y[2]
    \/ x[1] = y[1] /\ x[2] = y[2] /\ x[3] < y[3]
    \/ x[1] = y[1] /\ x[2] = y[2] /\ x[3] = y[3] /\ x[4] <= y[4]

F64Min(x, y) == IF F64Le(x, y) THEN x ELSE y
F64Max(x, y) == IF F64Le(x, y) THEN y ELSE x
FractIsZero(x) == x[4] = 0

(***************************************************************************)
(* NumType and InferredNumber (inferred_number.rs).                        *)
(***************************************************************************)
NumTypes == {"Int8", "Uint8", "Int16", "Uint16", "Int32", "Uint32", "Float32", "Float64"}

is_float(type_) == type_ \in {"Float32", "Float64"}

as_range(type_) ==
    CASE type_ = "Int8" -> <<F64FromInt(-128), F64FromInt(127)>>
      [] type_ = "Uint8" -> <<F64FromInt(0), F64FromInt(255)>>
      [] type_ = "Int16" -> <<F64FromInt(-32768), F64FromInt(32767)>>
      [] type_ = "Uint16" -> <<F64FromInt(0), F64FromInt(65535)>>
      [] type_ = "Int32" -> <<(<<0, -32768, 0, 0>>), (<<0, 32767, 65535, 0>>)>>
      [] type_ = "Uint32" -> <<F64FromInt(0), (<<0, 65535, 65535, 0>>)>>
      [] OTHER -> <<F64_MIN, F64_MAX>>

\* NumType::into_type: the jtd::Type of the same name, written in JTD's spelling.
num_into_type(type_) ==
    CASE type_ = "Int8" -> "int8"
      [] type_ = "Uint8" -> "uint8"
      [] type_ = "Int16" -> "int16"
      [] type_ = "Uint16" -> "uint16"
      [] type_ = "Int32" -> "int32"
      [] type_ = "Uint32" -> "uint32"
      [] type_ = "Float32" -> "float32"
      [] OTHER -> "float64"

InferredNumber_new == [min |-> F64_MAX, max |-> F64_MIN, int |-> TRUE]

InferredNumber_infer(self, n) ==
    [min |-> F64Min(self.min, n),
     max |-> F64Max(self.max, n),
     int |-> self.int /\ FractIsZero(n)]

contained_by(self, type_) ==
    IF ~self.int /\ ~is_float(type_)
    THEN FALSE
    ELSE LET r == as_range(type_)
         IN F64Le(r[1], self.min) /\ F64Le(self.max, r[2])

\* A scan that tries the signed type of each width before the unsigned one.
ScanTypes_SignedFirst == <<"Int8", "Uint8", "Int16", "Uint16", "Int32", "Uint32">>

ScanTypes == <<"Uint8", "Int8", "Uint16", "Int16", "Uint32", "Int32">>

into_type(self, default) ==
    IF contained_by(self, default)
    THEN num_into_type(default)
    ELSE LET hits == {i \in 1..Len(ScanTypes) : contained_by(self, ScanTypes[i])}
         IN IF hits = {}
            THEN num_into_type("Float64")
            ELSE num_into_type(ScanTypes[CHOOSE i \in hits : \A j \in hits : i <= j])

(***************************************************************************)
(* HintSet and Hints (hints.rs).  A hint set is the sequence of the tails  *)
(* of the paths still in play, in construction order.                      *)
(***************************************************************************)
WILDCARD == "-"

\* A descent in which "-" is an ordinary segment.
HintSet_sub_hints_NoWildcard(values, key) ==
    LET kept == SelectSeq(values, LAMBDA p : Len(p) > 0 /\ p[1] = key)
    IN [i \in 1..Len(kept) |-> Tail(kept[i])]

HintSet_sub_hints(values, key) ==
    LET kept == SelectSeq(values, LAMBDA p : Len(p) > 0 /\ (p[1] = WILDCARD \/ p[1] = key))
    IN [i \in 1..Len(kept) |-> Tail(kept[i])]

HintSet_is_active(values) == \E i \in 1..Len(values) : Len(values[i]) = 0

\* A peek that takes the last path with one segment left.
HintSet_peek_active_Last(values) ==
    LET ones == {i \in 1..Len(values) : Len(values[i]) = 1}
    IN IF ones = {}
       THEN <<>>
       ELSE <<values[CHOOSE i \in ones : \A j \in ones : j <= i][1]>>

\* Option<&str>: <<>> is None and <<s>> is Some(s).
HintSet_peek_active(values) ==
    LET ones == {i \in 1..Len(values) : Len(values[i]) = 1}
    IN IF ones = {}
       THEN <<>>
       ELSE <<values[CHOOSE i \in ones : \A j \in ones : i <= j][1]>>

Hints_new(default_num_type, enums, values, discriminator) ==
    [default_num_type |-> default_num_type,
     enums |-> enums,
     values |-> values,
     discriminator |-> discriminator]

sub_hints(hints, key) ==
    Hints_new(hints.default_num_type,
              HintSet_sub_hints(hints.enums, key),
              HintSet_sub_hints(hints.values, key),
              HintSet_sub_hints(hints.discriminator, key))

is_enum_active(hints) == HintSet_is_active(hints.enums)
is_values_active(hints) == HintSet_is_active(hints.values)
peek_active_discriminator(hints) == HintSet_peek_active(hints.discriminator)

(***************************************************************************)
(* Collaborators the inference calls into.                                 *)
(***************************************************************************)
\* DateTime::parse_from_rfc3339(&s).is_ok(), on the strings of the model.
Rfc3339Strings == {"1985-04-12T23:20:50.52Z", "2004-02-29T00:00:00+01:00"}
parse_from_rfc3339_is_ok(s) == s \in Rfc3339Strings

\* usize::to_string, on decimal digits.
Digits == <<"0", "1", "2", "3", "4", "5", "6", "7", "8", "9">>
RECURSIVE to_string(_)
to_string(i) ==
    IF i < 10 THEN Digits[i + 1] ELSE to_string(i \div 10) \o Digits[(i % 10) + 1]

\* Iteration order of serde_json::Map (a BTreeMap in the default build): the
\* keys in ascending byte order.  KeyOrder lists every key of the model so.
KeyOrder == <<"a", "b", "bar", "baz", "foo", "j", "k", "t", "x", "y">>
SortedKeys(S) == SelectSeq(KeyOrder, LAMBDA k : k \in S)

\* Map::remove on a copy of the map.
MapRemove(o, key) == [k \in (DOMAIN o) \ {key} |-> o[k]]

(***************************************************************************)
(* InferredSchema (inferred_schema.rs), one constructor per variant.       *)
(***************************************************************************)
Unknown == [k |-> "Unknown"]
InferredAny == [k |-> "Any"]
Boolean == [k |-> "Boolean"]
Number(n) == [k |-> "Number", num |-> n]
String == [k |-> "String"]
Timestamp == [k |-> "Timestamp"]
Enum(values) == [k |-> "Enum", values |-> values]
Array(sub) == [k |-> "Array", sub |-> sub]
Properties(required, optional) ==
    [k |-> "Properties", required |-> required, optional |-> optional]
Values(sub) == [k |-> "Values", sub |-> sub]
Discriminator(discriminator, mapping) ==
    [k |-> "Discriminator", discriminator |-> discriminator, mapping |-> mapping]
Nullable(sub) == [k |-> "Nullable", sub |-> sub]

NoMap == [k \in {} |-> Unknown]

RECURSIVE Infer(_, _, _)
RECURSIVE InferElements(_, _, _, _)
RECURSIVE InferValuesNew(_, _, _, _)
RECURSIVE InferValuesUpdate(_, _, _, _)

\* for (i, v) in vals.into_iter().enumerate() { sub_infer = sub_infer.infer(v, sub_hints(i)) }
\* i is the 1-based position in the model; the element's index is i - 1.
InferElements(sub_infer, vals, i, hints) ==
    IF i > Len(vals)
    THEN sub_infer
    ELSE InferElements(Infer(sub_infer, vals[i], sub_hints(hints, to_string(i - 1))),
                       vals, i + 1, hints)

\* (Unknown, Object) with the values hint active:
\* for (k, v) in obj { sub_infer = sub_infer.infer(v, sub_hints(k)) }
InferValuesNew(sub_infer, obj, keys, hints) ==
    IF keys = <<>>
    THEN sub_infer
    ELSE InferValuesNew(Infer(sub_infer, obj[Head(keys)], sub_hints(hints, Head(keys))),
                        obj, Tail(keys), hints)

\* InferValuesUpdate that folds each value into the accumulator.
InferValuesUpdate_Fold(sub_infer, map, keys, hints) ==
    InferValuesNew(sub_infer, map, keys, hints)

\* (Values(prior), Object):
\* for (k, v) in map { sub_infer = InferredSchema::Unknown.infer(v, sub_hints(k)) }
InferValuesUpdate(sub_infer, map, keys, hints) ==
    IF keys = <<>>
    THEN sub_infer
    ELSE InferValuesUpdate(Infer(Unknown, map[Head(keys)], sub_hints(hints, Head(keys))),
                           map, Tail(keys), hints)

\* InferUnknownString with the enum hint ignored.
InferUnknownString_NoEnum(s, hints) ==
    IF parse_from_rfc3339_is_ok(s) THEN Timestamp ELSE String

\* (Unknown, String)
InferUnknownString(s, hints) ==
    IF is_enum_active(hints)
    THEN Enum({s})
    ELSE IF parse_from_rfc3339_is_ok(s) THEN Timestamp ELSE String

\* (Unknown, Object) past the hints: every key required, none optional.
InferUnknownProperties(obj, hints) ==
    Properties([k \in DOMAIN obj |-> Infer(Unknown, obj[k], sub_hints(hints, k))], NoMap)

\* (Unknown, Object).  obj.remove(discriminator) runs before the removed value
\* is matched against Value::String, so the key is gone from obj on both paths.
InferUnknownObject(obj, hints) ==
    IF is_values_active(hints)
    THEN Values(InferValuesNew(Unknown, obj, SortedKeys(DOMAIN obj), hints))
    ELSE LET peek == peek_active_discriminator(hints)
         IN IF peek = <<>>
            THEN InferUnknownProperties(obj, hints)
            ELSE LET discriminator == peek[1]
                     rest == MapRemove(obj, discriminator)
                 IN IF discriminator \in DOMAIN obj /\ obj[discriminator].t = "str"
                    THEN Discriminator(discriminator,
                             [m \in {obj[discriminator].s} |-> Infer(Unknown, JObj(rest), hints)])
                    ELSE InferUnknownProperties(rest, hints)

\* InferPropertiesUpdate with the move of the missing required keys left out.
InferPropertiesUpdate_NoMove(required, optional, map, hints) ==
    LET required2 == [k \in DOMAIN required |->
                         IF k \in DOMAIN map
                         THEN Infer(required[k], map[k], sub_hints(hints, k))
                         ELSE required[k]]
        optional2 == [k \in (DOMAIN optional) \cup ((DOMAIN map) \ (DOMAIN required)) |->
                         IF k \in DOMAIN map
                         THEN IF k \in DOMAIN optional
                              THEN Infer(optional[k], map[k], sub_hints(hints, k))
                              ELSE Infer(Unknown, map[k], sub_hints(hints, k))
                         ELSE optional[k]]
    IN Properties(required2, optional2)

\* InferPropertiesUpdate that takes a key it has not seen before as required.
InferPropertiesUpdate_NewRequired(required, optional, map, hints) ==
    LET missing_required_keys == {k \in DOMAIN required : k \notin DOMAIN map}
        fresh == (DOMAIN map) \ ((DOMAIN required) \cup (DOMAIN optional))
        required2 == [k \in ((DOMAIN required) \ missing_required_keys) \cup fresh |->
                         IF k \in fresh
                         THEN Infer(Unknown, map[k], sub_hints(hints, k))
                         ELSE Infer(required[k], map[k], sub_hints(hints, k))]
        optional2 == [k \in (DOMAIN optional) \cup missing_required_keys |->
                         IF k \in missing_required_keys
                         THEN required[k]
                         ELSE IF k \in DOMAIN map
                              THEN Infer(optional[k], map[k], sub_hints(hints, k))
                              ELSE optional[k]]
    IN Properties(required2, optional2)

\* (Properties { required, optional }, Object)
InferPropertiesUpdate(required, optional, map, hints) ==
    LET missing_required_keys == {k \in DOMAIN required : k \notin DOMAIN map}
        required1 == [k \in (DOMAIN required) \ missing_required_keys |-> required[k]]
        optional1 == [k \in (DOMAIN optional) \cup missing_required_keys |->
                         IF k \in missing_required_keys THEN required[k] ELSE optional[k]]
        required2 == [k \in DOMAIN required1 |->
                         IF k \in DOMAIN map
                         THEN Infer(required1[k], map[k], sub_hints(hints, k))
                         ELSE required1[k]]
        optional2 == [k \in (DOMAIN optional1) \cup ((DOMAIN map) \ (DOMAIN required1)) |->
                         IF k \in DOMAIN map
                         THEN IF k \in DOMAIN optional1
                              THEN Infer(optional1[k], map[k], sub_hints(hints, k))
                              ELSE Infer(Unknown, map[k], sub_hints(hints, k))
                         ELSE optional1[k]]
    IN Properties(required2, optional2)

\* The outcome of a failed unwrap(): the thread panics and no lattice value
\* is returned.
Panic == [k |-> "Panic"]

\* InferDiscriminatorUpdate without the insertion of Unknown for a tag value
\* not in the mapping yet: mapping.remove(..) is None and unwrap() panics.
InferDiscriminatorUpdate_NoInsert(discriminator, mapping, obj, hints) ==
    IF discriminator \in DOMAIN obj /\ obj[discriminator].t = "str"
    THEN LET mapping_key_str == obj[discriminator].s
             rest == MapRemove(obj, discriminator)
         IN IF mapping_key_str \in DOMAIN mapping
            THEN Discriminator(discriminator,
                     [m \in DOMAIN mapping |->
                         IF m = mapping_key_str
                         THEN Infer(mapping[m], JObj(rest), hints)
                         ELSE mapping[m]])
            ELSE Panic
    ELSE InferredAny

\* InferDiscriminatorUpdate that folds into Unknown, not into the prior branch.
InferDiscriminatorUpdate_Fresh(discriminator, mapping, obj, hints) ==
    IF discriminator \in DOMAIN obj /\ obj[discriminator].t = "str"
    THEN LET mapping_key_str == obj[discriminator].s
             rest == MapRemove(obj, discriminator)
         IN Discriminator(discriminator,
                [m \in (DOMAIN mapping) \cup {mapping_key_str} |->
                    IF m = mapping_key_str
                    THEN Infer(Unknown, JObj(rest), hints)
                    ELSE mapping[m]])
    ELSE InferredAny

\* InferDiscriminatorUpdate that folds the whole object, tag included, into
\* the branch.
InferDiscriminatorUpdate_KeepTag(discriminator, mapping, obj, hints) ==
    IF discriminator \in DOMAIN obj /\ obj[discriminator].t = "str"
    THEN LET mapping_key_str == obj[discriminator].s
             prior == IF mapping_key_str \in DOMAIN mapping
                      THEN mapping[mapping_key_str]
                      ELSE Unknown
         IN Discriminator(discriminator,
                [m \in (DOMAIN mapping) \cup {mapping_key_str} |->
                    IF m = mapping_key_str
                    THEN Infer(prior, JObj(obj), hints)
                    ELSE mapping[m]])
    ELSE InferredAny

\* InferDiscriminatorUpdate that keeps only the branch it updates.
InferDiscriminatorUpdate_Single(discriminator, mapping, obj, hints) ==
    IF discriminator \in DOMAIN obj /\ obj[discriminator].t = "str"
    THEN LET mapping_key_str == obj[discriminator].s
             rest == MapRemove(obj, discriminator)
             prior == IF mapping_key_str \in DOMAIN mapping
                      THEN mapping[mapping_key_str]
                      ELSE Unknown
         IN Discriminator(discriminator,
                [m \in {mapping_key_str} |-> Infer(prior, JObj(rest), hints)])
    ELSE InferredAny

\* (Discriminator { discriminator, mapping }, Object)
InferDiscriminatorUpdate(discriminator, mapping, obj, hints) ==
    IF discriminator \in DOMAIN obj /\ obj[discriminator].t = "str"
    THEN LET mapping_key_str == obj[discriminator].s
             rest == MapRemove(obj, discriminator)
             prior == IF mapping_key_str \in DOMAIN mapping
                      THEN mapping[mapping_key_str]
                      ELSE Unknown
         IN Discriminator(discriminator,
                [m \in (DOMAIN mapping) \cup {mapping_key_str} |->
                    IF m = mapping_key_str
                    THEN Infer(prior, JObj(rest), hints)
                    ELSE mapping[m]])
    ELSE InferredAny

\* InferEnumUpdate that keeps only the incoming string.
InferEnumUpdate_Replace(values, s) == Enum({s})

\* (Enum(values), String)
InferEnumUpdate(values, s) == Enum(values \cup {s})

\* InferredSchema::infer: the match on (self, value), arms in source order.
Infer(self, value, hints) ==
    IF value.t = "null" THEN Nullable(self)
    ELSE IF self.k = "Nullable" THEN Nullable(Infer(self.sub, value, hints))
    ELSE CASE self.k = "Unknown" ->
                (CASE value.t = "bool" -> Boolean
                   [] value.t = "num" -> Number(InferredNumber_infer(InferredNumber_new, value.n))
                   [] value.t = "str" -> InferUnknownString(value.s, hints)
                   [] value.t = "arr" -> Array(InferElements(Unknown, value.a, 1, hints))
                   [] value.t = "obj" -> InferUnknownObject(value.o, hints))
           [] self.k = "Any" -> InferredAny
           [] self.k = "Boolean" -> IF value.t = "bool" THEN Boolean ELSE InferredAny
           [] self.k = "Number" ->
                IF value.t = "num"
                THEN Number(InferredNumber_infer(self.num, value.n))
                ELSE InferredAny
           [] self.k = "Timestamp" ->
                IF value.t = "str"
                THEN IF parse_from_rfc3339_is_ok(value.s) THEN Timestamp ELSE String
                ELSE InferredAny
           [] self.k = "String" -> IF value.t = "str" THEN String ELSE InferredAny
           [] self.k = "Enum" ->
                IF value.t = "str" THEN InferEnumUpdate(self.values, value.s) ELSE InferredAny
           [] self.k = "Array" ->
                IF value.t = "arr"
                THEN Array(InferElements(self.sub, value.a, 1, hints))
                ELSE InferredAny
           [] self.k = "Properties" ->
                IF value.t = "obj"
                THEN InferPropertiesUpdate(self.required, self.optional, value.o, hints)
                ELSE InferredAny
           [] self.k = "Values" ->
                IF value.t = "obj"
                THEN Values(InferValuesUpdate(self.sub, value.o, SortedKeys(DOMAIN value.o), hints))
                ELSE InferredAny
           [] self.k = "Discriminator" ->
                IF value.t = "obj"
                THEN InferDiscriminatorUpdate(self.discriminator, self.mapping, value.o, hints)
                ELSE InferredAny

(***************************************************************************)
(* jtd::Schema, one constructor per form the inference emits.              *)
(***************************************************************************)
SchemaEmpty == [form |-> "empty"]
SchemaType(nullable, type_) == [form |-> "type", nullable |-> nullable, type_ |-> type_]
SchemaEnum(nullable, enum_) == [form |-> "enum", nullable |-> nullable, enum_ |-> enum_]
SchemaElements(nullable, elements) ==
    [form |-> "elements", nullable |-> nullable, elements |-> elements]
SchemaProperties(nullable, properties, optional_properties, properties_is_present, additional_properties) ==
    [form |-> "properties", nullable |-> nullable, properties |-> properties,
     optional_properties |-> optional_properties,
     properties_is_present |-> properties_is_present,
     additional_properties |-> additional_properties]
SchemaValues(nullable, values) == [form |-> "values", nullable |-> nullable, values |-> values]
SchemaDiscriminator(nullable, discriminator, mapping) ==
    [form |-> "discriminator", nullable |-> nullable, discriminator |-> discriminator,
     mapping |-> mapping]

\* NullableSchema that flips the flag of the inner schema.
NullableSchema_Toggle(s) ==
    IF s.form = "empty" THEN s ELSE [s EXCEPT !.nullable = ~@]

\* NullableSchema that returns the inner schema as it is.
NullableSchema_Unset(s) == s

\* The Nullable arm of into_schema, applied to the schema of the inner value.
NullableSchema(s) ==
    IF s.form = "empty" THEN s ELSE [s EXCEPT !.nullable = TRUE]

RECURSIVE into_schema(_, _)
\* InferredSchema::into_schema
into_schema(self, hints) ==
    CASE self.k \in {"Unknown", "Any"} -> SchemaEmpty
      [] self.k = "Boolean" -> SchemaType(FALSE, "boolean")
      [] self.k = "Number" -> SchemaType(FALSE, into_type(self.num, hints.default_num_type))
      [] self.k = "String" -> SchemaType(FALSE, "string")
      [] self.k = "Timestamp" -> SchemaType(FALSE, "timestamp")
      [] self.k = "Enum" -> SchemaEnum(FALSE, self.values)
      [] self.k = "Array" -> SchemaElements(FALSE, into_schema(self.sub, hints))
      [] self.k = "Properties" ->
            SchemaProperties(FALSE,
                [k \in DOMAIN self.required |-> into_schema(self.required[k], hints)],
                [k \in DOMAIN self.optional |-> into_schema(self.optional[k], hints)],
                DOMAIN self.required # {},
                FALSE)
      [] self.k = "Values" -> SchemaValues(FALSE, into_schema(self.sub, hints))
      [] self.k = "Discriminator" ->
            SchemaDiscriminator(FALSE, self.discriminator,
                [m \in DOMAIN self.mapping |-> into_schema(self.mapping[m], hints)])
      [] self.k = "Nullable" -> NullableSchema(into_schema(self.sub, hints))

(***************************************************************************)
(* JTD validation (RFC 8927, section 3.3) of an instance against a schema  *)
(* of the forms above.  exempt is the set of keys a properties form does   *)
(* not count as additional: the tag, when the form is a mapping entry of   *)
(* a discriminator form, and no key otherwise.                             *)
(***************************************************************************)
IntTypeRange(type_) ==
    CASE type_ = "int8" -> as_range("Int8")
      [] type_ = "uint8" -> as_range("Uint8")
      [] type_ = "int16" -> as_range("Int16")
      [] type_ = "uint16" -> as_range("Uint16")
      [] type_ = "int32" -> as_range("Int32")
      [] type_ = "uint32" -> as_range("Uint32")

AcceptsType(type_, inst) ==
    CASE type_ = "boolean" -> inst.t = "bool"
      [] type_ = "string" -> inst.t = "str"
      [] type_ = "timestamp" -> inst.t = "str" /\ parse_from_rfc3339_is_ok(inst.s)
      [] type_ \in {"float32", "float64"} -> inst.t = "num"
      [] OTHER ->
            /\ inst.t = "num"
            /\ FractIsZero(inst.n)
            /\ F64Le(IntTypeRange(type_)[1], inst.n)
            /\ F64Le(inst.n, IntTypeRange(type_)[2])

RECURSIVE AcceptsWith(_, _, _)
AcceptsWith(schema, inst, exempt) ==
    IF schema.form = "empty" THEN TRUE
    ELSE IF schema.nullable /\ inst.t = "null" THEN TRUE
    ELSE CASE schema.form = "type" -> AcceptsType(schema.type_, inst)
           [] schema.form = "enum" -> inst.t = "str" /\ inst.s \in schema.enum_
           [] schema.form = "elements" ->
                /\ inst.t = "arr"
                /\ \A i \in 1..Len(inst.a) : AcceptsWith(schema.elements, inst.a[i], {})
           [] schema.form = "properties" ->
                /\ inst.t = "obj"
                /\ \A k \in DOMAIN schema.properties :
                      k \in DOMAIN inst.o /\ AcceptsWith(schema.properties[k], inst.o[k], {})
                /\ \A k \in DOMAIN schema.optional_properties :
                      k \in DOMAIN inst.o =>
                          AcceptsWith(schema.optional_properties[k], inst.o[k], {})
                /\ schema.additional_properties \/
                      \A k \in DOMAIN inst.o :
                          \/ k \in DOMAIN schema.properties
                          \/ k \in DOMAIN schema.optional_properties
                          \/ k \in exempt
           [] schema.form = "values" ->
                /\ inst.t = "obj"
                /\ \A k \in DOMAIN inst.o : AcceptsWith(schema.values, inst.o[k], {})
           [] schema.form = "discriminator" ->
                /\ inst.t = "obj"
                /\ schema.discriminator \in DOMAIN inst.o
                /\ inst.o[schema.discriminator].t = "str"
                /\ inst.o[schema.discriminator].s \in DOMAIN schema.mapping
                /\ AcceptsWith(schema.mapping[inst.o[schema.discriminator].s], inst,
                               {schema.discriminator})

Accepts(schema, inst) == AcceptsWith(schema, inst, {})

(***************************************************************************)
(* The hints bundles and the example documents the driver is run on.       *)
(***************************************************************************)
NoHints == <<>>
RootPath == <<>>

HintBundles ==
    { Hints_new("Uint8", NoHints, NoHints, NoHints),
      Hints_new("Float32", <<(<<"bar">>)>>, NoHints, NoHints),
      Hints_new("Uint8", <<RootPath, (<<"-">>)>>, NoHints, NoHints),
      Hints_new("Uint8", NoHints, <<RootPath>>, NoHints),
      Hints_new("Uint8", <<(<<"0">>)>>, NoHints, NoHints),
      Hints_new("Uint8", NoHints, NoHints, <<(<<"t">>)>>),
      Hints_new("Uint8", NoHints, <<RootPath>>, <<(<<"t">>)>>) }

N(i) == JNum(F64FromInt(i))

ExFooBar == JObj(("foo" :> JBool(TRUE)) @@ ("bar" :> JStr("xxx")))
ExFooBarBaz == JObj(("foo" :> JBool(FALSE)) @@ ("bar" :> JNull) @@ ("baz" :> N(5)))
ExA == JObj("a" :> N(1))
ExB == JObj("b" :> N(2))
ExK1 == JObj("k" :> N(1))
ExK2 == JObj("k" :> N(2))
ExKOops == JObj("k" :> JStr("oops"))
ExJK == JObj(("j" :> JStr("s")) @@ ("k" :> N(1)))
ExKNull == JObj("k" :> JNull)
ExJKObjects == JObj(("j" :> JObj(EmptyMap)) @@ ("k" :> JObj("a" :> N(1))))
ExTagA == JObj(("t" :> JStr("a")) @@ ("x" :> N(1)))
ExTagB == JObj(("t" :> JStr("b")) @@ ("y" :> JStr("s")))
ExTagA2 == JObj(("t" :> JStr("a")) @@ ("y" :> JNull))
ExTagNum == JObj(("t" :> N(1)) @@ ("x" :> N(1)))
ExTimestamp == JStr("1985-04-12T23:20:50.52Z")

ExStrings == JArr(<<JStr("xxx"), ExTimestamp>>)
ExEmpty == JObj(EmptyMap)
ExHalf == JNum(F64Half(0))

\* Every run sees the core examples; the others go with the hints they
\* exercise: records where no values or discriminator hint is given,
\* dictionaries under a values hint, tagged objects under a discriminator hint.
CoreExamples == {JNull, JBool(TRUE), JStr("xxx"), ExTimestamp, ExA, ExEmpty}
RecordExamples == {N(1), ExHalf, ExStrings, ExFooBar, ExFooBarBaz, ExB}
DictionaryExamples == {ExK1, ExK2, ExKOops, ExJK, ExKNull, ExJKObjects}
TaggedObjectExamples == {ExTagA, ExTagB, ExTagA2, ExTagNum}

Examples(h) ==
    CoreExamples
        \cup (IF h.values = <<>> /\ h.discriminator = <<>> THEN RecordExamples ELSE {})
        \cup (IF h.values # <<>> /\ h.discriminator = <<>> THEN DictionaryExamples ELSE {})
        \cup (IF h.discriminator # <<>> THEN TaggedObjectExamples ELSE {})

MaxExamples == 3

(***************************************************************************)
(* The driver (main.rs): an Inferrer holding the hints and the inference,  *)
(* folded over the stream of examples and then projected once.  xs is the  *)
(* history of the examples folded; out is <<>> until into_schema has run   *)
(* and <<schema>> afterwards.                                              *)
(***************************************************************************)
VARIABLES hints, inference, xs, out, matcher, keys, pointer, segments

vars == <<hints, inference, xs, out, matcher, keys, pointer, segments>>

\* The hints at the position the recursion of infer has reached, and the keys
\* it descended through to get there.
descentVars == <<matcher, keys>>

\* A --enum-hint / --values-hint / --discriminator-hint argument and its parse.
pointerVars == <<pointer, segments>>

Init ==
    /\ hints \in HintBundles
    /\ inference = Unknown
    /\ xs = <<>>
    /\ out = <<>>
    /\ matcher = hints
    /\ keys = <<>>
    /\ pointer = <<>>
    /\ segments = <<>>

\* inferrer = inferrer.infer(value)
InferStep(value) ==
    /\ out = <<>>
    /\ Len(xs) < MaxExamples
    /\ inference' = Infer(inference, value, hints)
    /\ xs' = Append(xs, value)
    /\ UNCHANGED <<hints, out, descentVars, pointerVars>>

\* inferrer.into_schema()
IntoSchemaStep ==
    /\ out = <<>>
    /\ out' = <<into_schema(inference, hints)>>
    /\ UNCHANGED <<hints, inference, xs, descentVars, pointerVars>>

Next ==
    \/ \E value \in Examples(hints) : InferStep(value)
    \/ IntoSchemaStep

Spec == Init /\ [][Next]_vars

(***************************************************************************)
(* Vocabulary of the properties below.                                     *)
(***************************************************************************)
Projected == out # <<>>
Schema == out[1]

PlainHints == Hints_new("Uint8", NoHints, NoHints, NoHints)
EnumBarHints == Hints_new("Float32", <<(<<"bar">>)>>, NoHints, NoHints)
EnumRootHints == Hints_new("Uint8", <<RootPath, (<<"-">>)>>, NoHints, NoHints)
ValuesRootHints == Hints_new("Uint8", NoHints, <<RootPath>>, NoHints)
DiscriminatorHints == Hints_new("Uint8", NoHints, NoHints, <<(<<"t">>)>>)
ValuesAndDiscriminatorHints == Hints_new("Uint8", NoHints, <<RootPath>>, <<(<<"t">>)>>)

RECURSIVE StripNullable(_)
StripNullable(s) == IF s.k = "Nullable" THEN StripNullable(s.sub) ELSE s

RECURSIVE FoldAll(_, _, _)
FoldAll(s, values, h) ==
    IF values = <<>> THEN s ELSE FoldAll(Infer(s, Head(values), h), Tail(values), h)

ObjectExamples == {i \in 1..Len(xs) : xs[i].t = "obj"}
KeysOfSome == UNION {DOMAIN xs[i].o : i \in ObjectExamples}
KeysOfEvery == {k \in KeysOfSome : \A i \in ObjectExamples : k \in DOMAIN xs[i].o}

(***************************************************************************)
(* C1. Acceptance: the schema projected after folding xs from Unknown      *)
(* accepts every example of xs under JTD validation.                       *)
(***************************************************************************)
C1_Acceptance ==
    Projected => \A i \in 1..Len(xs) : Accepts(Schema, xs[i])

(***************************************************************************)
(* C2. Monotonicity: a value the projection accepts before an infer call   *)
(* is still accepted by the projection after it.  Stated for the values    *)
(* the claim is sure to cover, the examples folded so far.                 *)
(***************************************************************************)
C2_Monotonicity ==
    [][\A i \in 1..Len(xs) :
          Accepts(into_schema(inference, hints), xs[i])
              => Accepts(into_schema(inference', hints'), xs[i])]_vars

(***************************************************************************)
(* C3. Required/optional partition: where no values or discriminator hint  *)
(* applies and every non-null example is an object, required holds exactly *)
(* the keys present in every object example and optional the keys present  *)
(* in some but not all of them, in the lattice value and in its            *)
(* projection; {"a":1} then {"b":2} leaves both keys optional.             *)
(***************************************************************************)
PropertiesPosition ==
    /\ ~is_values_active(hints)
    /\ peek_active_discriminator(hints) = <<>>
    /\ \A i \in 1..Len(xs) : xs[i].t \in {"null", "obj"}
    /\ ObjectExamples # {}

C3_RequiredOptionalPartition ==
    (Projected /\ PropertiesPosition) =>
        LET p == StripNullable(inference)
        IN /\ p.k = "Properties"
           /\ DOMAIN p.required = KeysOfEvery
           /\ DOMAIN p.optional = KeysOfSome \ KeysOfEvery
           /\ Schema.form = "properties"
           /\ DOMAIN Schema.properties = KeysOfEvery
           /\ DOMAIN Schema.optional_properties = KeysOfSome \ KeysOfEvery

C3_Witness ==
    /\ Projected
    /\ hints = PlainHints
    /\ xs = <<ExA, ExB>>
    /\ DOMAIN Schema.properties = {}
    /\ DOMAIN Schema.optional_properties = {"a", "b"}

(***************************************************************************)
(* C4. Scenario 1 as stated: no hints, default Uint8, {"foo":true,         *)
(* "bar":"xxx"} then {"foo":false,"bar":null,"baz":5} project to required  *)
(* {foo: boolean} and optional {bar: nullable string, baz: uint8}.         *)
(***************************************************************************)
Scenario1 ==
    /\ Projected
    /\ hints = PlainHints
    /\ xs = <<ExFooBar, ExFooBarBaz>>

C4_Scenario1_AsStated ==
    Scenario1 =>
        Schema = SchemaProperties(FALSE,
                     "foo" :> SchemaType(FALSE, "boolean"),
                     ("bar" :> SchemaType(TRUE, "string")) @@ ("baz" :> SchemaType(FALSE, "uint8")),
                     TRUE, FALSE)

(***************************************************************************)
(* C4, amended.  bar is a key of both examples, so it stays required: the  *)
(* projection has required {foo: boolean, bar: nullable string} and        *)
(* optional {baz: uint8}.                                                  *)
(***************************************************************************)
C4_Scenario1 ==
    Scenario1 =>
        Schema = SchemaProperties(FALSE,
                     ("foo" :> SchemaType(FALSE, "boolean")) @@ ("bar" :> SchemaType(TRUE, "string")),
                     "baz" :> SchemaType(FALSE, "uint8"),
                     TRUE, FALSE)

C4_Witness ==
    /\ Scenario1
    /\ "bar" \in DOMAIN Schema.properties
    /\ DOMAIN Schema.optional_properties = {"baz"}

(***************************************************************************)
(* C5. A key whose value is null still counts as present: a key of every   *)
(* object example is required whatever its values, and a null among them   *)
(* only makes its own schema nullable (or leaves it the empty form).  With *)
(* the enum hint on ["bar"] and default Float32 the two examples of        *)
(* scenario 1 project to required {foo: boolean, bar: nullable enum        *)
(* ["xxx"]} and optional {baz: float32}.                                   *)
(***************************************************************************)
NullAt(k) == \E i \in ObjectExamples : k \in DOMAIN xs[i].o /\ xs[i].o[k].t = "null"

C5_NullValuedKeyIsPresent ==
    /\ (Projected /\ hints = EnumBarHints /\ xs = <<ExFooBar, ExFooBarBaz>>) =>
          Schema = SchemaProperties(FALSE,
                       ("foo" :> SchemaType(FALSE, "boolean"))
                           @@ ("bar" :> SchemaEnum(TRUE, {"xxx"})),
                       "baz" :> SchemaType(FALSE, "float32"),
                       TRUE, FALSE)
    /\ (Projected /\ PropertiesPosition) =>
          \A k \in KeysOfEvery :
              /\ k \in DOMAIN Schema.properties
              /\ Schema.properties[k].form # "empty" =>
                     (Schema.properties[k].nullable <=> NullAt(k))

C5_Witness ==
    /\ Projected
    /\ hints = EnumBarHints
    /\ xs = <<ExFooBar, ExFooBarBaz>>
    /\ Schema.properties["bar"] = SchemaEnum(TRUE, {"xxx"})

(***************************************************************************)
(* C6. Scenario 5: with the values hint on the root path, {"k":1},         *)
(* {"k":2}, {"k":"oops"} project to a values form whose child is the empty *)
(* form.                                                                   *)
(***************************************************************************)
C6_Scenario5 ==
    (Projected /\ hints = ValuesRootHints /\ xs = <<ExK1, ExK2, ExKOops>>) =>
        Schema = SchemaValues(FALSE, SchemaEmpty)

(***************************************************************************)
(* C7. Single-example idempotence: folding an example twice from Unknown   *)
(* projects to the same schema as folding it once.                         *)
(***************************************************************************)
C7_SingleExampleIdempotence ==
    (Projected /\ Len(xs) = 2 /\ xs[1] = xs[2]) =>
        Schema = into_schema(Infer(Unknown, xs[1], hints), hints)

(***************************************************************************)
(* C8. Null idempotence: folding null N >= 1 times into a reachable        *)
(* lattice value projects as folding it once does, although the lattice    *)
(* nests N Nullable wrappers; null, null, true projects to a nullable      *)
(* boolean.                                                                *)
(***************************************************************************)
MaxNulls == 3

RECURSIVE FoldNulls(_, _)
FoldNulls(s, n) == IF n = 0 THEN s ELSE FoldNulls(Infer(s, JNull, hints), n - 1)

RECURSIVE NullableDepth(_)
NullableDepth(s) == IF s.k = "Nullable" THEN 1 + NullableDepth(s.sub) ELSE 0

C8_NullIdempotence ==
    /\ \A n \in 1..MaxNulls :
          /\ NullableDepth(FoldNulls(inference, n)) = n + NullableDepth(inference)
          /\ into_schema(FoldNulls(inference, n), hints)
                 = into_schema(FoldNulls(inference, 1), hints)
    /\ (Projected /\ Len(xs) >= 2 /\ xs[Len(xs)] = JNull /\ xs[Len(xs) - 1] = JNull) =>
          /\ inference.k = "Nullable"
          /\ Schema = into_schema(inference.sub, hints)
    /\ (Projected /\ xs = <<JNull, JNull, JBool(TRUE)>>) =>
          Schema = SchemaType(TRUE, "boolean")

C8_Witness ==
    /\ Projected
    /\ xs = <<JNull, JNull, JBool(TRUE)>>
    /\ NullableDepth(inference) = 2
    /\ Schema = SchemaType(TRUE, "boolean")

(***************************************************************************)
(* C9. Enum growth: where the enum hint is active and every example is a   *)
(* string, the projection is the enum form of exactly the strings          *)
(* observed, RFC 3339 strings included, and the set is not empty.  The     *)
(* same holds at the element position of arrays under a wildcard hint.     *)
(***************************************************************************)
IsStringArray(v) == v.t = "arr" /\ \A j \in 1..Len(v.a) : v.a[j].t = "str"

C9_EnumGrowth ==
    /\ (Projected /\ is_enum_active(hints) /\ xs # <<>>
            /\ \A i \in 1..Len(xs) : xs[i].t = "str") =>
          /\ Schema = SchemaEnum(FALSE, {xs[i].s : i \in 1..Len(xs)})
          /\ Schema.enum_ # {}
    /\ (Projected /\ xs # <<>>
            /\ \A i \in 1..Len(xs) :
                  /\ IsStringArray(xs[i])
                  /\ Len(xs[i].a) > 0
                  /\ \A j \in 1..Len(xs[i].a) :
                        is_enum_active(sub_hints(hints, to_string(j - 1)))) =>
          Schema = SchemaElements(FALSE,
                       SchemaEnum(FALSE,
                           UNION {{xs[i].a[j].s : j \in 1..Len(xs[i].a)} : i \in 1..Len(xs)}))

C9_Witness ==
    /\ Projected
    /\ hints = EnumRootHints
    /\ xs = <<JStr("xxx"), ExTimestamp, JStr("xxx")>>
    /\ Schema = SchemaEnum(FALSE, {"xxx", "1985-04-12T23:20:50.52Z"})

(***************************************************************************)
(* C10. Discriminator inference as stated: where the discriminator hint    *)
(* yields key d and every example is an object with a string at d, the     *)
(* projection is a discriminator form on d with one branch per observed    *)
(* tag, each the properties form inferred from the objects of that tag     *)
(* with d removed.                                                         *)
(***************************************************************************)
TagKey == peek_active_discriminator(hints)[1]

TaggedExamples ==
    /\ peek_active_discriminator(hints) # <<>>
    /\ xs # <<>>
    /\ \A i \in 1..Len(xs) :
          /\ xs[i].t = "obj"
          /\ TagKey \in DOMAIN xs[i].o
          /\ xs[i].o[TagKey].t = "str"

Tags == {xs[i].o[TagKey].s : i \in 1..Len(xs)}

RestsWithTag(tag) ==
    LET tagged == SelectSeq(xs, LAMBDA x : x.o[TagKey].s = tag)
    IN [i \in 1..Len(tagged) |-> JObj(MapRemove(tagged[i].o, TagKey))]

\* The hints of the position with the paths that name a tag there left out.
HintsWithoutTag ==
    [hints EXCEPT !.discriminator = SelectSeq(@, LAMBDA path : Len(path) # 1)]

DiscriminatorOnTags ==
    /\ Schema.form = "discriminator"
    /\ ~Schema.nullable
    /\ Schema.discriminator = TagKey
    /\ DOMAIN Schema.mapping = Tags
    /\ \A tag \in Tags :
          /\ Schema.mapping[tag].form = "properties"
          /\ Schema.mapping[tag]
                 = into_schema(FoldAll(Unknown, RestsWithTag(tag), HintsWithoutTag),
                               HintsWithoutTag)

C10_Discriminator_AsStated ==
    (Projected /\ TaggedExamples) => DiscriminatorOnTags

(***************************************************************************)
(* C10, amended: the same, where in addition the values hint is not        *)
(* active at the position (it takes precedence over the discriminator      *)
(* hint); {"t":"a","x":1}, {"t":"b","y":"s"} with the hint on ["t"] give   *)
(* branches a: properties {x: uint8} and b: properties {y: string}.        *)
(***************************************************************************)
C10_Discriminator ==
    /\ (Projected /\ TaggedExamples /\ ~is_values_active(hints)) => DiscriminatorOnTags
    /\ (Projected /\ hints = DiscriminatorHints /\ xs = <<ExTagA, ExTagB>>) =>
          Schema.mapping =
              ("a" :> SchemaProperties(FALSE, "x" :> SchemaType(FALSE, "uint8"),
                                       EmptyMap, TRUE, FALSE))
              @@ ("b" :> SchemaProperties(FALSE, "y" :> SchemaType(FALSE, "string"),
                                          EmptyMap, TRUE, FALSE))

C10_Witness ==
    /\ Projected
    /\ hints = DiscriminatorHints
    /\ xs = <<ExTagA, ExTagB, ExTagA2>>
    /\ DOMAIN Schema.mapping = {"a", "b"}
    /\ DOMAIN Schema.mapping["a"].optional_properties = {"x", "y"}


(***************************************************************************)
(* Numeric type selection: the same driver over number examples only, one  *)
(* run per default number type.                                            *)
(***************************************************************************)
MaxObservations == 2

\* The boundaries of the six integer types, their neighbours, and 0.5.
NumberPool ==
    {F64FromInt(0), F64FromInt(-1), F64FromInt(127), F64FromInt(128), F64FromInt(-128),
     F64FromInt(-129), F64FromInt(255), F64FromInt(256), F64FromInt(32767),
     F64FromInt(32768), F64FromInt(-32768), F64FromInt(-32769), F64FromInt(65535),
     F64FromInt(65536), F64FromInt(2147483647), <<0, 32768, 0, 0>>,
     <<0, -32768, 0, 0>>, <<0, -32769, 65535, 0>>, <<0, 65535, 65535, 0>>,
     <<0, 65536, 0, 0>>, F64Half(0)}

NumberInit ==
    /\ hints \in {Hints_new(d, NoHints, NoHints, NoHints) : d \in NumTypes}
    /\ inference = Unknown
    /\ xs = <<>>
    /\ out = <<>>
    /\ matcher = hints
    /\ keys = <<>>
    /\ pointer = <<>>
    /\ segments = <<>>

\* inferrer = inferrer.infer(value), the value being a JSON number.
ObserveStep(n) ==
    /\ out = <<>>
    /\ Len(xs) < MaxObservations
    /\ inference' = Infer(inference, JNum(n), hints)
    /\ xs' = Append(xs, JNum(n))
    /\ UNCHANGED <<hints, out, descentVars, pointerVars>>

NumberNext ==
    \/ \E n \in NumberPool : ObserveStep(n)
    \/ IntoSchemaStep

SpecNumber == NumberInit /\ [][NumberNext]_vars

\* Two's-complement ranges, computed from the width of the type.
TwoToThe(b) == IF b < 16 THEN <<0, 0, 2 ^ b, 0>> ELSE <<0, 2 ^ (b - 16), 0, 0>>
Predecessor(x) == IF x[3] > 0 THEN <<0, x[2], x[3] - 1, 0>> ELSE <<0, x[2] - 1, 65535, 0>>
Negated(x) == IF x[3] = 0 THEN <<0, 0 - x[2], 0, 0>> ELSE <<0, (0 - x[2]) - 1, 65536 - x[3], 0>>
Width(type_) == IF type_ \in {"Int8", "Uint8"} THEN 8 ELSE IF type_ \in {"Int16", "Uint16"} THEN 16 ELSE 32
IsSigned(type_) == type_ \in {"Int8", "Int16", "Int32"}
LeastOf(type_) == IF IsSigned(type_) THEN Negated(TwoToThe(Width(type_) - 1)) ELSE F64FromInt(0)
GreatestOf(type_) == Predecessor(TwoToThe(IF IsSigned(type_) THEN Width(type_) - 1 ELSE Width(type_)))

Observations == {xs[i].n : i \in 1..Len(xs)}
AllIntegral == \A x \in Observations : x[4] = 0

\* "type_ contains the observed data".
Holds(type_) ==
    \/ type_ \in {"Float32", "Float64"}
    \/ /\ AllIntegral
       /\ \A x \in Observations : F64Le(LeastOf(type_), x) /\ F64Le(x, GreatestOf(type_))

NarrowestFirst == <<"Uint8", "Int8", "Uint16", "Int16", "Uint32", "Int32">>

SelectedType ==
    IF Holds(hints.default_num_type)
    THEN hints.default_num_type
    ELSE IF \E i \in 1..6 : Holds(NarrowestFirst[i])
         THEN NarrowestFirst[CHOOSE i \in 1..6 : Holds(NarrowestFirst[i]) /\ \A j \in 1..(i - 1) : ~Holds(NarrowestFirst[j])]
         ELSE "Float64"

JtdName(type_) ==
    CASE type_ = "Int8" -> "int8" [] type_ = "Uint8" -> "uint8" [] type_ = "Int16" -> "int16"
      [] type_ = "Uint16" -> "uint16" [] type_ = "Int32" -> "int32" [] type_ = "Uint32" -> "uint32"
      [] type_ = "Float32" -> "float32" [] type_ = "Float64" -> "float64"

ObservedExactly(S) == xs # <<>> /\ Observations = S

\* C11: projecting a number position gives the default type whenever the
\* default contains the observed data (the default is a float type, or every
\* observation is integral and lies within the default's two's-complement
\* range); otherwise the first of uint8, int8, uint16, int16, uint32, int32
\* that contains it, and float64 when none does.  In particular 0..255 under
\* default int8 gives uint8, -128..127 under default uint16 gives int8, 2^31
\* gives uint32, 2^32 gives float64, and a non-integral observation gives
\* float64 unless the default is a float type.
C11_NumericTypeSelection ==
    (Projected /\ xs # <<>> /\ \A i \in 1..Len(xs) : xs[i].t = "num") =>
        /\ Schema = SchemaType(FALSE, JtdName(SelectedType))
        /\ (hints.default_num_type = "Int8" /\ ObservedExactly({F64FromInt(0), F64FromInt(255)}))
               => Schema.type_ = "uint8"
        /\ (hints.default_num_type = "Uint16" /\ ObservedExactly({F64FromInt(-128), F64FromInt(127)}))
               => Schema.type_ = "int8"
        /\ (~is_float(hints.default_num_type) /\ ObservedExactly({<<0, 32768, 0, 0>>}))
               => Schema.type_ = "uint32"
        /\ (~is_float(hints.default_num_type) /\ ObservedExactly({<<0, 65536, 0, 0>>}))
               => Schema.type_ = "float64"
        /\ (~is_float(hints.default_num_type) /\ F64Half(0) \in Observations)
               => Schema.type_ = "float64"

C11_Witness ==
    /\ Projected
    /\ hints.default_num_type = "Int8"
    /\ xs = <<JNum(F64FromInt(0)), JNum(F64FromInt(255))>>
    /\ Schema = SchemaType(FALSE, "uint8")


(***************************************************************************)
(* Hint descent: the matcher that infer hands down, one sub_hints per key  *)
(* or array index on the way to a position.                                *)
(***************************************************************************)
MaxPaths == 2
MaxDepth == 3

\* The paths of the tests of hints.rs, with wildcard and array-index ones.
PathPool ==
    {<<>>, <<"a">>, <<"a", "b">>, <<"a", "b", "c">>, <<"-">>, <<"a", "-">>, <<"-", "b">>, <<"0">>}

PathLists == UNION {[1..n -> PathPool] : n \in 0..MaxPaths}

DescentKeys == {"a", "b", "c", "0"}

DescentInit ==
    /\ hints \in {Hints_new("Uint8", P, P, P) : P \in PathLists}
    /\ inference = Unknown
    /\ xs = <<>>
    /\ out = <<>>
    /\ matcher = hints
    /\ keys = <<>>
    /\ pointer = <<>>
    /\ segments = <<>>

\* hints.sub_hints(&k), as infer calls it on each step down.
DescendStep(key) ==
    /\ Len(keys) < MaxDepth
    /\ matcher' = sub_hints(matcher, key)
    /\ keys' = Append(keys, key)
    /\ UNCHANGED <<hints, inference, xs, out, pointerVars>>

DescentNext == \E key \in DescentKeys : DescendStep(key)

SpecDescent == DescentInit /\ [][DescentNext]_vars

\* The first n segments of path p match the keys descended through.
MatchesKeys(p, n) == \A i \in 1..n : p[i] = keys[i] \/ p[i] = "-"

ReachedBy(paths) == \E q \in 1..Len(paths) : Len(paths[q]) = Len(keys) /\ MatchesKeys(paths[q], Len(keys))

\* C12: after sub_hints(k1), ..., sub_hints(kn) the matcher is active iff
\* some path it was built from has exactly n segments, the i-th of which is
\* ki or the wildcard "-" for each i; shorter, longer and mismatching paths
\* never make it active.
C12_HintDescent ==
    /\ is_enum_active(matcher) <=> ReachedBy(hints.enums)
    /\ is_values_active(matcher) <=> ReachedBy(hints.values)
    /\ HintSet_is_active(matcher.discriminator) <=> ReachedBy(hints.discriminator)

C12_Witness ==
    /\ hints.enums = <<(<<"a", "b">>), (<<"a", "-">>)>>
    /\ keys = <<"a", "c">>
    /\ is_enum_active(matcher)

OneLeft(paths) == {q \in 1..Len(paths) : Len(paths[q]) = Len(keys) + 1 /\ MatchesKeys(paths[q], Len(keys))}

\* C13: peek_active returns the single remaining segment of the first path,
\* in construction order, that has exactly one segment left after the
\* descents so far, and None when no retained path has exactly one left.
C13_PeekActive ==
    LET ones == OneLeft(hints.discriminator)
    IN IF ones = {}
       THEN peek_active_discriminator(matcher) = <<>>
       ELSE LET first == CHOOSE q \in ones : \A r \in ones : q <= r
            IN peek_active_discriminator(matcher) = <<hints.discriminator[first][Len(keys) + 1]>>

C13_Witness ==
    /\ hints.discriminator = <<(<<"a", "b">>), (<<"a", "-">>)>>
    /\ keys = <<"a">>
    /\ peek_active_discriminator(matcher) = <<"b">>

WildcardHeads(paths) == {q \in 1..Len(paths) : Len(paths[q]) > 0 /\ paths[q][1] = WILDCARD}

\* C14: only the wildcard segment "-" matches array elements: on the way
\* into element i of an array a path whose next segment is an ordinary one
\* is never retained, so without a wildcard path the elements of an array of
\* strings are never inferred as an enum.
C14_OnlyWildcardMatchesElements ==
    /\ \A i \in 1..Len(xs) : xs[i].t = "arr" =>
           \A j \in 1..Len(xs[i].a) :
               LET sub == sub_hints(hints, to_string(j - 1))
               IN /\ Len(sub.enums) = Cardinality(WildcardHeads(hints.enums))
                  /\ Len(sub.values) = Cardinality(WildcardHeads(hints.values))
                  /\ Len(sub.discriminator) = Cardinality(WildcardHeads(hints.discriminator))
    /\ ( /\ Projected
         /\ xs # <<>>
         /\ \A i \in 1..Len(xs) : IsStringArray(xs[i])
         /\ WildcardHeads(hints.enums) = {} ) =>
           (Schema.form = "elements" /\ Schema.elements.form # "enum")


(***************************************************************************)
(* Totality.                                                               *)
(***************************************************************************)
RECURSIVE IsInferredSchema(_)
IsInferredSchema(s) ==
    CASE s.k \in {"Unknown", "Any", "Boolean", "String", "Timestamp"} -> TRUE
      [] s.k = "Number" -> s.num.int \in BOOLEAN
      [] s.k = "Enum" -> \A v \in s.values : v \in STRING
      [] s.k \in {"Array", "Values", "Nullable"} -> IsInferredSchema(s.sub)
      [] s.k = "Properties" ->
            /\ \A key \in DOMAIN s.required : IsInferredSchema(s.required[key])
            /\ \A key \in DOMAIN s.optional : IsInferredSchema(s.optional[key])
      [] s.k = "Discriminator" ->
            \A tag \in DOMAIN s.mapping : IsInferredSchema(s.mapping[tag])
      [] OTHER -> FALSE

\* A schema of one of the forms other than ref, at every depth.
RECURSIVE IsSchema(_)
IsSchema(sc) ==
    CASE sc.form \in {"empty", "type", "enum"} -> TRUE
      [] sc.form = "elements" -> IsSchema(sc.elements)
      [] sc.form = "values" -> IsSchema(sc.values)
      [] sc.form = "properties" ->
            /\ \A key \in DOMAIN sc.properties : IsSchema(sc.properties[key])
            /\ \A key \in DOMAIN sc.optional_properties : IsSchema(sc.optional_properties[key])
      [] sc.form = "discriminator" -> \A tag \in DOMAIN sc.mapping : IsSchema(sc.mapping[tag])
      [] OTHER -> FALSE

\* One value of each JSON type.
TypeSamples == {JNull, JBool(TRUE), N(1), JStr("xxx"), ExStrings, ExA}

\* The (current, incoming) pairs a specific rule of infer covers.
Covered(kind, t) ==
    \/ kind = "Unknown"
    \/ kind = "Boolean" /\ t = "bool"
    \/ kind = "Number" /\ t = "num"
    \/ kind \in {"Timestamp", "String", "Enum"} /\ t = "str"
    \/ kind = "Array" /\ t = "arr"
    \/ kind \in {"Properties", "Values", "Discriminator"} /\ t = "obj"

\* C15: infer returns a lattice value and into_schema a schema for every
\* reachable inference, every JSON value and every hints bundle, without a
\* panic; a (current, incoming) pair that no specific rule covers yields
\* Any; and no projection is of the ref form.
C15_Totality ==
    /\ IsInferredSchema(inference)
    /\ IsSchema(into_schema(inference, hints))
    /\ Projected => IsSchema(Schema)
    /\ \A v \in TypeSamples \cup Examples(hints) :
           /\ IsInferredSchema(Infer(inference, v, hints))
           /\ (v.t # "null" /\ ~Covered(StripNullable(inference).k, v.t)) =>
                  StripNullable(Infer(inference, v, hints)) = InferredAny

C15_Witness ==
    /\ Projected
    /\ xs = <<JBool(TRUE), JStr("xxx")>>
    /\ inference = InferredAny
    /\ Schema = SchemaEmpty


(***************************************************************************)
(* Order of the examples.                                                  *)
(***************************************************************************)
Orderings(n) == {p \in [1..n -> 1..n] : \A i, j \in 1..n : p[i] = p[j] => i = j}

Reordered(p) == [i \in 1..Len(xs) |-> xs[p[i]]]

\* The schema with properties and optionalProperties merged into one map.
RECURSIVE ModuloRequired(_)
ModuloRequired(sc) ==
    CASE sc.form = "elements" -> [sc EXCEPT !.elements = ModuloRequired(sc.elements)]
      [] sc.form = "values" -> [sc EXCEPT !.values = ModuloRequired(sc.values)]
      [] sc.form = "discriminator" ->
            [sc EXCEPT !.mapping = [tag \in DOMAIN sc.mapping |-> ModuloRequired(sc.mapping[tag])]]
      [] sc.form = "properties" ->
            [form |-> "properties",
             nullable |-> sc.nullable,
             members |-> [key \in (DOMAIN sc.properties) \cup (DOMAIN sc.optional_properties) |->
                             IF key \in DOMAIN sc.properties
                             THEN ModuloRequired(sc.properties[key])
                             ELSE ModuloRequired(sc.optional_properties[key])]]
      [] OTHER -> sc

\* C16: for every hints bundle and every two orderings of the same examples
\* the two projected schemas are equal once the distinction between
\* required and optional properties is ignored.
C16_OrderIndependence ==
    Projected =>
        \A p \in Orderings(Len(xs)) :
            ModuloRequired(into_schema(FoldAll(Unknown, Reordered(p), hints), hints))
                = ModuloRequired(Schema)


(***************************************************************************)
(* parse_json_pointer (main.rs).  A string is the sequence of its          *)
(* characters; a parsed path is a sequence of such strings.                *)
(***************************************************************************)
MaxPointerLen == 4

PointerChars == {"/", "~", "1", "!", "0", "a"}

PointerStrings == UNION {[1..n -> PointerChars] : n \in 0..MaxPointerLen}

\* str::replace(from, to) for a two-character pattern: the non-overlapping
\* matches, left to right.
RECURSIVE Replace(_, _, _)
Replace(s, from, to) ==
    IF Len(s) = 0 THEN <<>>
    ELSE IF Len(s) >= 2 /\ s[1] = from[1] /\ s[2] = from[2]
         THEN to \o Replace(SubSeq(s, 3, Len(s)), from, to)
         ELSE <<s[1]>> \o Replace(Tail(s), from, to)

\* str::split("/"): the pieces between the separators, empty ones included.
RECURSIVE Split(_)
Split(s) ==
    LET at == {i \in 1..Len(s) : s[i] = "/"}
    IN IF at = {}
       THEN <<s>>
       ELSE LET i == CHOOSE i \in at : \A j \in at : i <= j
            IN <<SubSeq(s, 1, i - 1)>> \o Split(SubSeq(s, i + 1, Len(s)))

parse_json_pointer(s) ==
    IF s = <<>>
    THEN <<>>
    ELSE Tail(Split(Replace(Replace(s, <<"~", "1">>, <<"/">>), <<"!", "0">>, <<"~">>)))

PointerInit ==
    /\ pointer \in PointerStrings
    /\ segments = <<>>
    /\ hints = Hints_new("Uint8", NoHints, NoHints, NoHints)
    /\ inference = Unknown
    /\ xs = <<>>
    /\ out = <<>>
    /\ matcher = hints
    /\ keys = <<>>

\* parse_json_pointer(s), as main calls it on each hint argument.
ParseStep ==
    /\ segments = <<>>
    /\ segments' = <<parse_json_pointer(pointer)>>
    /\ UNCHANGED <<pointer, hints, inference, xs, out, descentVars>>

PointerNext == ParseStep

SpecPointer == PointerInit /\ [][PointerNext]_vars

Parsed == segments # <<>>
Path == segments[1]

Slashes(s) == Cardinality({i \in 1..Len(s) : s[i] = "/"})

Decoded(segment) == Replace(Replace(segment, <<"~", "1">>, <<"/">>), <<"!", "0">>, <<"~">>)

\* Split on "/" after the leading "/", then decode inside each segment.
SplitThenDecode(s) ==
    LET raw == Tail(Split(s))
    IN [i \in 1..Len(raw) |-> Decoded(raw[i])]

\* C17: parse_json_pointer maps "" to the empty path and any other string to
\* its pieces between "/" after the leading "/", with "~1" -> "/" and
\* "!0" -> "~" decoded inside each piece after splitting, so there are as
\* many segments as "/" in the raw string and an encoded "~1" never starts a
\* new segment.
C17_ParseJsonPointer ==
    Parsed =>
        /\ pointer = <<>> => Path = <<>>
        /\ pointer # <<>> => Path = SplitThenDecode(pointer)
        /\ Len(Path) = Slashes(pointer)


(***************************************************************************)
(* Any, position by position.                                              *)
(***************************************************************************)
ChildAt(s, key) == IF key \in DOMAIN s.required THEN s.required[key] ELSE s.optional[key]

\* Every position of s that is Any is still Any in t and projects to the
\* empty form.  Positions whose enclosing node became Any, or changed kind,
\* no longer exist in t.
RECURSIVE AnyStays(_, _)
AnyStays(s, t) ==
    LET a == StripNullable(s)
        b == StripNullable(t)
    IN IF a.k = "Any"
       THEN b.k = "Any" /\ into_schema(t, hints) = SchemaEmpty
       ELSE IF a.k # b.k
            THEN TRUE
            ELSE CASE a.k \in {"Array", "Values"} -> AnyStays(a.sub, b.sub)
                   [] a.k = "Properties" ->
                         \A key \in ((DOMAIN a.required) \cup (DOMAIN a.optional))
                                           \cap ((DOMAIN b.required) \cup (DOMAIN b.optional)) :
                             AnyStays(ChildAt(a, key), ChildAt(b, key))
                   [] a.k = "Discriminator" ->
                         \A tag \in (DOMAIN a.mapping) \cap (DOMAIN b.mapping) :
                             AnyStays(a.mapping[tag], b.mapping[tag])
                   [] OTHER -> TRUE

\* C18: once the inference at a position is Any, folding a further example,
\* null included, never narrows it, and its projection stays the empty form.
C18_AnyIsAbsorbing == [][AnyStays(inference, inference')]_vars


(***************************************************************************)
(* The discriminator hint on objects without a usable tag, and the update  *)
(* of a discriminator.                                                     *)
(***************************************************************************)
\* C19: at an Unknown position where the discriminator hint yields key d
\* (and the values hint is not active), an object m that lacks d, or whose
\* m[d] is not a string, is inferred as the same Properties as without the
\* hint: every key of m, d included when present, is required and no key is
\* optional.
C19_MisappliedDiscriminatorHint ==
    ( /\ Len(xs) = 1
      /\ xs[1].t = "obj"
      /\ ~is_values_active(hints)
      /\ peek_active_discriminator(hints) # <<>>
      /\ (TagKey \notin DOMAIN xs[1].o \/ xs[1].o[TagKey].t # "str") ) =>
        /\ inference = Infer(Unknown, xs[1], HintsWithoutTag)
        /\ inference.k = "Properties"
        /\ DOMAIN inference.required = DOMAIN xs[1].o
        /\ DOMAIN inference.optional = {}

\* C20: folding an object m into a discriminator gives Any when m lacks the
\* tag or m[tag] is not a string; otherwise the tag is kept, every mapping
\* entry other than m[tag] is unchanged, and the entry for m[tag] (Unknown
\* if absent) is replaced by its fold with m minus the tag key under the
\* same hints.
C20_DiscriminatorUpdate ==
    [][LET d == StripNullable(inference)
           e == StripNullable(inference')
           m == xs'[Len(xs')]
       IN (xs' # xs /\ d.k = "Discriminator" /\ m.t = "obj") =>
              IF d.discriminator \in DOMAIN m.o /\ m.o[d.discriminator].t = "str"
              THEN LET tag == m.o[d.discriminator].s
                       prior == IF tag \in DOMAIN d.mapping THEN d.mapping[tag] ELSE Unknown
                   IN /\ e.k = "Discriminator"
                      /\ e.discriminator = d.discriminator
                      /\ DOMAIN e.mapping = (DOMAIN d.mapping) \cup {tag}
                      /\ \A other \in (DOMAIN d.mapping) \ {tag} : e.mapping[other] = d.mapping[other]
                      /\ e.mapping[tag] = Infer(prior, JObj(MapRemove(m.o, d.discriminator)), hints)
              ELSE e = InferredAny]_vars

C20_Witness ==
    /\ xs = <<ExTagA, ExTagB, ExTagA2>>
    /\ inference.k = "Discriminator"
    /\ inference.discriminator = "t"
    /\ DOMAIN inference.mapping = {"a", "b"}
    /\ DOMAIN inference.mapping["a"].optional = {"x", "y"}
    /\ DOMAIN inference.mapping["b"].required = {"y"}


(***************************************************************************)
(* Shape of the branches of a discriminator.                               *)
(***************************************************************************)
\* Every Discriminator inside s maps to Properties values without the tag.
RECURSIVE BranchesWellFormed(_)
BranchesWellFormed(s) ==
    CASE s.k \in {"Array", "Values", "Nullable"} -> BranchesWellFormed(s.sub)
      [] s.k = "Properties" ->
            /\ \A key \in DOMAIN s.required : BranchesWellFormed(s.required[key])
            /\ \A key \in DOMAIN s.optional : BranchesWellFormed(s.optional[key])
      [] s.k = "Discriminator" ->
            \A tag \in DOMAIN s.mapping :
                /\ s.mapping[tag].k = "Properties"
                /\ s.discriminator \notin DOMAIN s.mapping[tag].required
                /\ s.discriminator \notin DOMAIN s.mapping[tag].optional
                /\ BranchesWellFormed(s.mapping[tag])
      [] OTHER -> TRUE

\* Every discriminator form inside sc maps to properties forms that do not
\* define the tag.
RECURSIVE MappingWellFormed(_)
MappingWellFormed(sc) ==
    CASE sc.form = "elements" -> MappingWellFormed(sc.elements)
      [] sc.form = "values" -> MappingWellFormed(sc.values)
      [] sc.form = "properties" ->
            /\ \A key \in DOMAIN sc.properties : MappingWellFormed(sc.properties[key])
            /\ \A key \in DOMAIN sc.optional_properties : MappingWellFormed(sc.optional_properties[key])
      [] sc.form = "discriminator" ->
            \A tag \in DOMAIN sc.mapping :
                /\ sc.mapping[tag].form = "properties"
                /\ sc.discriminator \notin DOMAIN sc.mapping[tag].properties
                /\ sc.discriminator \notin DOMAIN sc.mapping[tag].optional_properties
                /\ MappingWellFormed(sc.mapping[tag])
      [] OTHER -> TRUE

RECURSIVE KeysDisjoint(_)
KeysDisjoint(s) ==
    CASE s.k \in {"Array", "Values", "Nullable"} -> KeysDisjoint(s.sub)
      [] s.k = "Properties" ->
            /\ (DOMAIN s.required) \cap (DOMAIN s.optional) = {}
            /\ \A key \in DOMAIN s.required : KeysDisjoint(s.required[key])
            /\ \A key \in DOMAIN s.optional : KeysDisjoint(s.optional[key])
      [] s.k = "Discriminator" -> \A tag \in DOMAIN s.mapping : KeysDisjoint(s.mapping[tag])
      [] OTHER -> TRUE

\* Every key that is optional at a position of s is still optional, and not
\* required, at the same position of t, as long as the position is a
\* Properties in both.
RECURSIVE OptionalStays(_, _)
OptionalStays(s, t) ==
    LET a == StripNullable(s)
        b == StripNullable(t)
    IN IF a.k # b.k
       THEN TRUE
       ELSE CASE a.k \in {"Array", "Values"} -> OptionalStays(a.sub, b.sub)
              [] a.k = "Properties" ->
                    /\ \A key \in DOMAIN a.optional :
                           key \in DOMAIN b.optional /\ key \notin DOMAIN b.required
                    /\ \A key \in ((DOMAIN a.required) \cup (DOMAIN a.optional))
                                      \cap ((DOMAIN b.required) \cup (DOMAIN b.optional)) :
                           OptionalStays(ChildAt(a, key), ChildAt(b, key))
              [] a.k = "Discriminator" ->
                    \A tag \in (DOMAIN a.mapping) \cap (DOMAIN b.mapping) :
                        OptionalStays(a.mapping[tag], b.mapping[tag])
              [] OTHER -> TRUE

\* C22: in every reachable Properties value, at any depth, the key sets of
\* required and optional are disjoint, and a key once moved to optional
\* never returns to required.
C22_RequiredOptionalDisjoint ==
    [][KeysDisjoint(inference') /\ OptionalStays(inference, inference')]_vars


(***************************************************************************)
(* The nullable flag.                                                      *)
(***************************************************************************)
ObjectsOf(V) == {v \in V : v.t = "obj"}
ArraysOf(V) == {v \in V : v.t = "arr"}
ElementsOf(V) == UNION {{v.a[i] : i \in 1..Len(v.a)} : v \in ArraysOf(V)}
MembersOf(V) == UNION {{v.o[key] : key \in DOMAIN v.o} : v \in ObjectsOf(V)}
MembersAt(V, key) == {v.o[key] : v \in {w \in ObjectsOf(V) : key \in DOMAIN w.o}}
BranchOf(V, d, tag) ==
    {JObj(MapRemove(v.o, d)) : v \in {w \in ObjectsOf(V) : d \in DOMAIN w.o /\ w.o[d] = JStr(tag)}}

\* No node of sc is an empty form carrying a nullable flag.
RECURSIVE NoNullableEmpty(_)
NoNullableEmpty(sc) ==
    CASE sc.form = "empty" -> "nullable" \notin DOMAIN sc
      [] sc.form = "elements" -> NoNullableEmpty(sc.elements)
      [] sc.form = "values" -> NoNullableEmpty(sc.values)
      [] sc.form = "properties" ->
            /\ \A key \in DOMAIN sc.properties : NoNullableEmpty(sc.properties[key])
            /\ \A key \in DOMAIN sc.optional_properties : NoNullableEmpty(sc.optional_properties[key])
      [] sc.form = "discriminator" -> \A tag \in DOMAIN sc.mapping : NoNullableEmpty(sc.mapping[tag])
      [] OTHER -> TRUE

\* Every non-empty node of sc is nullable exactly when a null is among the
\* values V folded at its position.
RECURSIVE NullableWhereNull(_, _)
NullableWhereNull(sc, V) ==
    IF sc.form = "empty"
    THEN TRUE
    ELSE /\ sc.nullable <=> (JNull \in V)
         /\ CASE sc.form = "elements" -> NullableWhereNull(sc.elements, ElementsOf(V))
              [] sc.form = "values" -> NullableWhereNull(sc.values, MembersOf(V))
              [] sc.form = "properties" ->
                    /\ \A key \in DOMAIN sc.properties :
                           NullableWhereNull(sc.properties[key], MembersAt(V, key))
                    /\ \A key \in DOMAIN sc.optional_properties :
                           NullableWhereNull(sc.optional_properties[key], MembersAt(V, key))
              [] sc.form = "discriminator" ->
                    \A tag \in DOMAIN sc.mapping :
                        NullableWhereNull(sc.mapping[tag], BranchOf(V, sc.discriminator, tag))
              [] OTHER -> TRUE

\* C23: the projection of Nullable(S) is the projection of S with only the
\* top-level nullable flag set, except that an empty projection stays the
\* plain empty form; so no projected schema contains a nullable empty form,
\* and a non-empty node is nullable exactly when a null was folded at its
\* position.
C23_NullableProjection ==
    /\ LET inner == into_schema(inference, hints)
       IN into_schema(Nullable(inference), hints) =
              IF inner.form = "empty" THEN SchemaEmpty ELSE [inner EXCEPT !.nullable = TRUE]
    /\ Projected =>
           /\ NoNullableEmpty(Schema)
           /\ NullableWhereNull(Schema, {xs[i] : i \in 1..Len(xs)})


(***************************************************************************)
(* The Values update.                                                      *)
(***************************************************************************)
LastKey(m) == LET ks == SortedKeys(DOMAIN m) IN ks[Len(ks)]

\* The step folds value v into a Values, possibly under Nullable wrappers.
ValuesUpdated(v) ==
    /\ xs' # xs
    /\ StripNullable(inference).k = "Values"
    /\ xs'[Len(xs')] = v

\* C24 as stated: folding an object m into Values(c) yields Values(c')
\* where c' is the inference from Unknown of only the last-iterated value of
\* m under hints.sub_hints(its key); c and the other values of m never
\* influence c'.
C24_ValuesUpdate_AsStated ==
    [][\A v \in Examples(hints) :
           (v.t = "obj" /\ ValuesUpdated(v)) =>
               /\ DOMAIN v.o # {} =>
                      StripNullable(inference') =
                          Values(Infer(Unknown, v.o[LastKey(v.o)], sub_hints(hints, LastKey(v.o))))
               /\ \A c \in {Unknown, Boolean, InferredAny} :
                      Infer(Values(c), v, hints) = StripNullable(inference')]_vars

\* C24: folding a non-empty object m into Values(c) yields Values(c') where
\* c' is the inference from Unknown of only the last-iterated value of m
\* under hints.sub_hints(its key); c and the other values of m do not
\* influence c'.  Folding the empty object leaves Values(c) as it is.
C24_ValuesUpdate ==
    [][\A v \in Examples(hints) :
           (v.t = "obj" /\ ValuesUpdated(v)) =>
               IF DOMAIN v.o = {}
               THEN StripNullable(inference') = StripNullable(inference)
               ELSE /\ StripNullable(inference') =
                           Values(Infer(Unknown, v.o[LastKey(v.o)], sub_hints(hints, LastKey(v.o))))
                    /\ \A c \in {Unknown, Boolean, InferredAny} :
                           Infer(Values(c), v, hints) = StripNullable(inference')]_vars

C24_Witness ==
    /\ xs = <<ExK1, ExJK>>
    /\ inference = Values(Number(InferredNumber_infer(InferredNumber_new, F64FromInt(1))))


(***************************************************************************)
(* Order of the examples, without hints.                                   *)
(***************************************************************************)
WithoutHints == hints.enums = <<>> /\ hints.values = <<>> /\ hints.discriminator = <<>>

\* C25: with all three hint sets empty the projected schema, required and
\* optional keys included, is the same for every permutation of the
\* examples; the required set does not depend on which example came first.
C25_OrderIndependenceWithoutHints ==
    (Projected /\ WithoutHints) =>
        \A p \in Orderings(Len(xs)) :
            into_schema(FoldAll(Unknown, Reordered(p), hints), hints) = Schema

C25_Witness ==
    /\ Projected
    /\ WithoutHints
    /\ xs = <<ExFooBarBaz, ExFooBar>>
    /\ Schema.form = "properties"
    /\ DOMAIN Schema.properties = {"foo", "bar"}
    /\ DOMAIN Schema.optional_properties = {"baz"}

====
